---- MODULE Spec2Model ----
(***************************************************************************)
(* Model of garage-single-node: the bootstrap runner (main), the readiness *)
(* prober (wait_for_garage) and the three reconciliation routines          *)
(* (ensure_layout, ensure_key, ensure_buckets) of src/src/main.rs, driven  *)
(* against a model of the Garage admin API.                                *)
(*                                                                         *)
(* Time is counted in units of 100 ms (the poll interval).                 *)
(***************************************************************************)
EXTENDS Integers, Sequences, FiniteSets, TLC

\* ------------------------------------------------------------ bounds
\* Pre-existing remote buckets in an initial state.
MaxRemoteBuckets == 1
\* Entries of GARAGE_BUCKETS.
MaxDesired == 2
\* Bootstrap runs (container starts) followed in one behaviour.
MaxRuns == 2
\* Cap of the prober's clock, in units of 100 ms (never reached by the code:
\* the loop leaves at GARAGE_START_TIMEOUT plus one request timeout).
MaxElapsed == 215

\* --------------------------------------------------- program constants
\* Duration::from_secs(20), in units of 100 ms.
GARAGE_START_TIMEOUT == 200
\* Duration::from_millis(100).
GARAGE_START_POLL_INTERVAL == 1
\* Duration::from_secs(1).
GARAGE_START_LOG_INTERVAL == 10
\* reqwest .connect_timeout / .timeout of one second.
REQUEST_TIMEOUT == 10

\* i64::MAX does not fit TLC's integers: kept symbolic.
I64_MAX == "i64::MAX"
Zone == "dc1"
IndexDocument == "index.html"
None == "none"

\* ------------------------------------------------------------ universe
\* Bucket names (all pass is_valid_bucket_name).
Names == {"site", "data"}
\* GARAGE_ACCESS_KEY_ID.
AccessKeyId == "GKcfg"
\* The single node of the cluster.
NodeName == "n1"
\* Global aliases a pre-existing remote bucket may carry.
Aliases == Names \cup {"old"}

VARIABLES
    pc,                 \* position of main
    run,                \* number of the bootstrap run (container start)
    env,                \* GARAGE_BUCKETS, split at ',': sequence of [name, policy]
    config,             \* Config.buckets: sequence of [name, policy]
    exit_code,          \* exit code of the bootstrap process, once pc = "exited"
    error,              \* what ended main with Err, or "none"
    child,              \* the garage process: "none", "running", "exited"
    exit_status,        \* the ExitStatus main collected, as its code(); -1: no code
    exit_during,        \* position of main when the garage process exited
    elapsed,            \* wait_for_garage: start.elapsed(), in units of 100 ms
    next_log,           \* wait_for_garage: next_log
    start_result,       \* what run_garage returned, or "none"
    last_resp,          \* wait_for_garage: the last answer of get_cluster_status
    last_notice,        \* wait_for_garage: elapsed time at the last progress notice; -1: none
    node_id,            \* Garage.node_id
    db_exists,          \* /var/lib/garage/meta/db.sqlite exists
    layout,             \* remote: [version, roles, staged]
    keys,               \* remote: access key ids of the key table
    buckets,            \* remote: id -> [aliases, website, perms]
    garage_bucket_map,  \* ensure_buckets: alias -> id
    idx,                \* ensure_buckets: index of bucket_config in config.buckets
    bucket_id,          \* ensure_buckets: id of the bucket being processed
    staged_version,     \* ensure_layout: version returned by update_cluster_layout
    calls,              \* Admin API calls issued by this run, in order
    orig,               \* remote state when the first run reached ensure_layout
    after1              \* remote state when the first reconciliation completed

mainVars == <<pc, run, env, config, exit_code, error>>
childVars == <<child, exit_status, exit_during>>
probeVars == <<elapsed, next_log, start_result, last_resp, last_notice, node_id>>
remoteVars == <<db_exists, layout, keys, buckets>>
localVars == <<garage_bucket_map, idx, bucket_id, staged_version>>
histVars == <<calls, orig, after1>>

vars == <<mainVars, childVars, probeVars, remoteVars, localVars, histVars>>

\* ------------------------------------------------------------ helpers
Remote == [layout |-> layout, keys |-> keys, buckets |-> buckets]

EmptyMap == [n \in {} |-> 0]

\* UpdateBucketWebsiteAccess chosen by bucket_config.policy.
WebsiteAccess_AlwaysPublic(policy) ==
    [enabled |-> TRUE, index_document |-> IndexDocument, error_document |-> None]

WebsiteAccess(policy) ==
    IF policy = "Public"
    THEN [enabled |-> TRUE, index_document |-> IndexDocument, error_document |-> None]
    ELSE [enabled |-> FALSE, index_document |-> None, error_document |-> None]

WebOff == [enabled |-> FALSE, index_document |-> None, error_document |-> None]
WebOn == [enabled |-> TRUE, index_document |-> IndexDocument, error_document |-> None]

\* ApiBucketKeyPerm {owner: Some(true), read: Some(true), write: Some(true)}.
GrantedPerms == {"owner", "read", "write"}

\* The role ensure_layout proposes for the node.
NodeRole_NoCapacity(id) == [id |-> id, zone |-> Zone, capacity |-> None, tags |-> {}]

NodeRole(id) == [id |-> id, zone |-> Zone, capacity |-> I64_MAX, tags |-> {}]

Call(op, id, alias, arg, outcome) ==
    [op |-> op, id |-> id, alias |-> alias, arg |-> arg, outcome |-> outcome]

\* What a request can come to: answered, failed before the server acted, or
\* acted on by the server with the answer lost (the client's timeout).
Outcomes == {"ok", "err", "lost"}

Effective(o) == o \in {"ok", "lost"}
Failed_OnlyErr(o) == o = "err"

Failed_Never(o) == FALSE

\* The call returned Err: the ? operator returns it from the routine.
Failed(o) == o \in {"err", "lost"}

\* ------------------------------------------------- the admin API server
\* update_cluster_layout: stages the role changes; answers with the layout,
\* whose version is still the committed one.
SrvUpdateLayout(l, role) ==
    [l EXCEPT !.staged = {r \in l.staged : r.id # role.id} \cup {role}]

\* apply_cluster_layout commits the staged changes as version v, which must
\* be the successor of the committed version.
SrvApplyAccepts(l, v) == v = l.version + 1

SrvApplyLayout(l, v) ==
    [version |-> v,
     roles |-> {r \in l.roles : \A s \in l.staged : s.id # r.id} \cup l.staged,
     staged |-> {}]

\* A global alias is unique: create_bucket is refused for an alias in use.
AliasInUse(b, alias) == \E id \in DOMAIN b : alias \in b[id].aliases

NewBucketId(b) == Cardinality(DOMAIN b) + 1

SrvCreateBucket(b, alias) ==
    b @@ (NewBucketId(b) :> [aliases |-> {alias}, website |-> WebOff, perms |-> {}])

SrvUpdateBucket(b, id, web) == [b EXCEPT ![id].website = web]

SrvAllowBucketKey(b, id, key, perms) ==
    [b EXCEPT ![id].perms = @ \cup {<<key, p>> : p \in perms}]

\* list_buckets: id and global aliases of every bucket.
SrvListBuckets(b) == {[id |-> id, global_aliases |-> b[id].aliases] : id \in DOMAIN b}

\* ------------------------------------------------------- configuration
\* BucketPolicy::from_str (strum, snake_case, ascii_case_insensitive).
ParsePolicy(value) ==
    IF value \in {"private", "PRIVATE", "Private"} THEN "Private"
    ELSE IF value \in {"public", "PUBLIC", "Public"} THEN "Public"
    ELSE "invalid"

\* The policy of one entry: the part after ':' when there is one, else Private.
EntryPolicy(entry) ==
    IF entry.policy = "absent" THEN "Private" ELSE ParsePolicy(entry.policy)

\* Config::from_env on GARAGE_BUCKETS: one BucketConfig per entry, in order,
\* repeated names kept; an entry with an unknown policy fails the whole load.
ParseOk(raw) == \A k \in 1..Len(raw) : EntryPolicy(raw[k]) # "invalid"

ParseBuckets(raw) ==
    [k \in 1..Len(raw) |-> [name |-> raw[k].name, policy |-> EntryPolicy(raw[k])]]

\* ------------------------------------------------------- main: failure
\* main returns Err (the ? operator): the process ends with exit code 1.
Abort(what) ==
    /\ pc' = "exited"
    /\ exit_code' = 1
    /\ error' = what

\* A request reaches the server only while the garage process runs.
Reachable(o) == o = "err" \/ child = "running"

\* ------------------------------------------------------- ensure_layout
LayoutInitialized_AboveOne(l) == l.version > 1

LayoutInitialized_Never(l) == FALSE

LayoutInitialized(l) == l.version > 0

ApplyVersion_Two(v) == v + 2

ApplyVersion_Same(v) == v

ApplyVersion(v) == v + 1

\* No layout was answered.
NoLayout == [version |-> -1, roles |-> {}, staged |-> {}]

\* garage.api.get_cluster_layout().await? and the version test. The call is
\* logged with the layout the server answered.
GetClusterLayout ==
    /\ pc = "ensure_layout"
    /\ \E o \in {"ok", "err"} :
        /\ Reachable(o)
        /\ calls' = Append(calls,
                Call("get_cluster_layout", 0, None,
                     IF o = "ok" THEN layout ELSE NoLayout, o))
        /\ IF o = "err"
           THEN Abort("api") /\ UNCHANGED <<run, env, config>>
           ELSE /\ pc' = IF LayoutInitialized(layout)
                          THEN "ensure_key" ELSE "update_cluster_layout"
                /\ UNCHANGED <<run, env, config, exit_code, error>>
    /\ UNCHANGED <<childVars, probeVars, remoteVars, localVars, orig, after1>>

\* garage.api.update_cluster_layout(...).await?
UpdateClusterLayout ==
    /\ pc = "update_cluster_layout"
    /\ \E o \in Outcomes :
        /\ Reachable(o)
        /\ calls' = Append(calls,
                Call("update_cluster_layout", 0, None, NodeRole(node_id), o))
        /\ layout' = IF Effective(o)
                      THEN SrvUpdateLayout(layout, NodeRole(node_id)) ELSE layout
        /\ IF Failed(o)
           THEN Abort("api") /\ UNCHANGED <<run, env, config, staged_version>>
           ELSE /\ pc' = "apply_cluster_layout"
                /\ staged_version' = layout.version
                /\ UNCHANGED <<run, env, config, exit_code, error>>
    /\ UNCHANGED <<childVars, probeVars, db_exists, keys, buckets,
                   garage_bucket_map, idx, bucket_id, orig, after1>>

\* garage.api.apply_cluster_layout(version: layout.version + 1).await?
ApplyClusterLayout ==
    /\ pc = "apply_cluster_layout"
    /\ \E o \in Outcomes :
        /\ Reachable(o)
        /\ o = "err" \/ SrvApplyAccepts(layout, ApplyVersion(staged_version))
        /\ calls' = Append(calls,
                Call("apply_cluster_layout", ApplyVersion(staged_version), None, None, o))
        /\ layout' = IF Effective(o)
                      THEN SrvApplyLayout(layout, ApplyVersion(staged_version))
                      ELSE layout
        /\ IF Failed(o)
           THEN Abort("api") /\ UNCHANGED <<run, env, config>>
           ELSE /\ pc' = "ensure_key"
                /\ UNCHANGED <<run, env, config, exit_code, error>>
    /\ UNCHANGED <<childVars, probeVars, db_exists, keys, buckets,
                   localVars, orig, after1>>

\* ---------------------------------------------------------- ensure_key
\* garage.api.import_key(access_key_id, secret_access_key).await?
ImportKey ==
    /\ pc = "ensure_key"
    /\ \E o \in Outcomes :
        /\ Reachable(o)
        /\ calls' = Append(calls, Call("import_key", 0, None, AccessKeyId, o))
        /\ keys' = IF Effective(o) THEN keys \cup {AccessKeyId} ELSE keys
        /\ IF Failed(o)
           THEN Abort("api") /\ UNCHANGED <<run, env, config>>
           ELSE /\ pc' = "list_buckets"
                /\ UNCHANGED <<run, env, config, exit_code, error>>
    /\ UNCHANGED <<childVars, probeVars, db_exists, layout, buckets,
                   localVars, orig, after1>>

\* ------------------------------------------------------ ensure_buckets
\* The listed buckets that enter garage_bucket_map: those with exactly one
\* global alias (none: skipped; more than one: skipped).
Matchable_AnyAlias(listing) == {b \in listing : b.global_aliases # {}}

Matchable(listing) ==
    {b \in listing : b.global_aliases # {} /\ ~(Cardinality(b.global_aliases) > 1)}

\* A map that answers every name with a listed bucket, whatever its alias.
BucketMap_ById(listing) ==
    IF Matchable(listing) = {} THEN EmptyMap
    ELSE [a \in Names \cup UNION {b.global_aliases : b \in Matchable(listing)} |->
            CHOOSE id \in {b.id : b \in Matchable(listing)} : TRUE]

\* garage_bucket_map after the first loop: global_aliases[0] -> id.
BucketMap(listing) ==
    [a \in UNION {b.global_aliases : b \in Matchable(listing)} |->
        CHOOSE id \in {b.id : b \in Matchable(listing)} :
            \E b \in Matchable(listing) : b.id = id /\ a \in b.global_aliases]

\* The head of the second loop for entry k: after the last entry ensure_buckets
\* returns and main logs "Bootstrapping complete."; a name of the map goes on
\* with its id, any other name is created first.
LoopPc(map, k) ==
    IF k > Len(config) THEN "await_exit"
    ELSE IF config[k].name \in DOMAIN map THEN "update_bucket"
    ELSE "create_bucket"

LoopBucketId(map, k) ==
    IF k <= Len(config) /\ config[k].name \in DOMAIN map
    THEN map[config[k].name] ELSE 0

\* The remote state at the first completed reconciliation.
Completed(nextpc, remote) ==
    IF nextpc = "await_exit" /\ ~after1.set
    THEN [set |-> TRUE, run |-> run, remote |-> remote]
    ELSE after1

\* garage.api.list_buckets().await? and the first loop.
ListBuckets ==
    /\ pc = "list_buckets"
    /\ \E o \in {"ok", "err"} :
        /\ Reachable(o)
        /\ calls' = Append(calls, Call("list_buckets", 0, None, None, o))
        /\ IF o = "err"
           THEN /\ Abort("api")
                /\ UNCHANGED <<run, env, config, localVars, after1>>
           ELSE /\ garage_bucket_map' = BucketMap(SrvListBuckets(buckets))
                /\ idx' = 1
                /\ pc' = LoopPc(garage_bucket_map', 1)
                /\ bucket_id' = LoopBucketId(garage_bucket_map', 1)
                /\ after1' = Completed(pc', Remote)
                /\ UNCHANGED <<run, env, config, exit_code, error, staged_version>>
    /\ UNCHANGED <<childVars, probeVars, remoteVars, orig>>

\* garage.api.create_bucket(global_alias: name).await?
CreateBucket ==
    /\ pc = "create_bucket"
    /\ \E o \in Outcomes :
        /\ Reachable(o)
        /\ o = "err" \/ ~AliasInUse(buckets, config[idx].name)
        /\ calls' = Append(calls,
                Call("create_bucket", IF Effective(o) THEN NewBucketId(buckets) ELSE 0,
                     config[idx].name, None, o))
        /\ buckets' = IF Effective(o)
                       THEN SrvCreateBucket(buckets, config[idx].name) ELSE buckets
        /\ IF Failed(o)
           THEN Abort("api") /\ UNCHANGED <<run, env, config, bucket_id>>
           ELSE /\ pc' = "update_bucket"
                /\ bucket_id' = NewBucketId(buckets)
                /\ UNCHANGED <<run, env, config, exit_code, error>>
    /\ UNCHANGED <<childVars, probeVars, db_exists, layout, keys,
                   garage_bucket_map, idx, staged_version, orig, after1>>

\* garage.api.update_bucket(&bucket_id, website_access).await?
UpdateBucket ==
    /\ pc = "update_bucket"
    /\ \E o \in Outcomes :
        /\ Reachable(o)
        /\ o = "err" \/ bucket_id \in DOMAIN buckets
        /\ calls' = Append(calls,
                Call("update_bucket", bucket_id, config[idx].name,
                     WebsiteAccess(config[idx].policy), o))
        /\ buckets' = IF Effective(o)
                       THEN SrvUpdateBucket(buckets, bucket_id,
                                            WebsiteAccess(config[idx].policy))
                       ELSE buckets
        /\ IF Failed(o)
           THEN Abort("api") /\ UNCHANGED <<run, env, config>>
           ELSE /\ pc' = "allow_bucket_key"
                /\ UNCHANGED <<run, env, config, exit_code, error>>
    /\ UNCHANGED <<childVars, probeVars, db_exists, layout, keys,
                   localVars, orig, after1>>

\* garage.api.allow_bucket_key(access_key_id, bucket_id, owner/read/write).await?
\* and the step to the next bucket_config.
AllowBucketKey ==
    /\ pc = "allow_bucket_key"
    /\ \E o \in Outcomes :
        /\ Reachable(o)
        /\ o = "err" \/ (bucket_id \in DOMAIN buckets /\ AccessKeyId \in keys)
        /\ calls' = Append(calls,
                Call("allow_bucket_key", bucket_id, config[idx].name, GrantedPerms, o))
        /\ buckets' = IF Effective(o)
                       THEN SrvAllowBucketKey(buckets, bucket_id, AccessKeyId, GrantedPerms)
                       ELSE buckets
        /\ IF Failed(o)
           THEN /\ Abort("api")
                /\ UNCHANGED <<run, env, config, idx, bucket_id, after1>>
           ELSE /\ idx' = idx + 1
                /\ pc' = LoopPc(garage_bucket_map, idx + 1)
                /\ bucket_id' = LoopBucketId(garage_bucket_map, idx + 1)
                /\ after1' = Completed(pc', [Remote EXCEPT !.buckets = buckets'])
                /\ UNCHANGED <<run, env, config, exit_code, error>>
    /\ UNCHANGED <<childVars, probeVars, db_exists, layout, keys,
                   garage_bucket_map, staged_version, orig>>

\* ----------------------------------------------------------- delete_keys
\* DELETE FROM tree_key_COLON_table when db.sqlite exists, else nothing.
DeleteKeys_Skip(exists, ks) == ks

DeleteKeys(exists, ks) == IF exists THEN {} ELSE ks

\* ------------------------------------------- reconciliation, run by run
NoResp == [ok |-> FALSE, nodes |-> <<>>]

InitLayouts ==
    {[version |-> 0, roles |-> {}, staged |-> {}],
     [version |-> 0, roles |-> {}, staged |-> {NodeRole(NodeName)}],
     [version |-> 1, roles |-> {NodeRole(NodeName)}, staged |-> {}]}

InitBucketRecs ==
    [aliases : {a \in SUBSET Aliases : Cardinality(a) <= 2}, website : {WebOff, WebOn},
     perms : {{}, {<<AccessKeyId, "read">>}}]

\* Remote buckets 1..n; a global alias names at most one of them.
InitBuckets ==
    {b \in UNION {[1..n -> InitBucketRecs] : n \in 0..MaxRemoteBuckets} :
        \A x, y \in DOMAIN b : x # y => b[x].aliases \cap b[y].aliases = {}}

EnvEntries == [name : Names, policy : {"absent", "public"}]

EnvLists == UNION {[1..n -> EnvEntries] : n \in 0..MaxDesired}

\* The state in which main reaches ensure_layout (main.rs:301): the key table
\* was emptied by delete_keys, garage runs and reported its node up.
InitReconcile ==
    /\ pc = "ensure_layout"
    /\ run = 1
    /\ env \in EnvLists
    /\ config = ParseBuckets(env)
    /\ exit_code = 0
    /\ error = "none"
    /\ child = "running"
    /\ exit_status = 0
    /\ exit_during = "none"
    /\ elapsed = 0
    /\ next_log = 0
    /\ start_result = "Ready"
    /\ last_resp = NoResp
    /\ last_notice = -1
    /\ node_id = NodeName
    /\ db_exists = TRUE
    /\ layout \in InitLayouts
    /\ keys = {}
    /\ buckets \in InitBuckets
    /\ garage_bucket_map = EmptyMap
    /\ idx = 0
    /\ bucket_id = 0
    /\ staged_version = 0
    /\ calls = <<>>
    /\ orig = [layout |-> layout, keys |-> keys, buckets |-> buckets]
    /\ after1 = [set |-> FALSE, run |-> 0, remote |-> orig]

\* The container is started again after a run that ended (by an error, or with
\* garage): main up to run_garage returning Ready (main.rs:295-300), with the
\* same environment; delete_keys empties the key table before garage starts.
Rebootstrap ==
    /\ pc \in {"exited", "await_exit"}
    /\ run < MaxRuns
    /\ run' = run + 1
    /\ pc' = "ensure_layout"
    /\ exit_code' = 0
    /\ error' = "none"
    /\ keys' = DeleteKeys(db_exists, keys)
    /\ garage_bucket_map' = EmptyMap
    /\ idx' = 0
    /\ bucket_id' = 0
    /\ staged_version' = 0
    /\ calls' = <<>>
    /\ UNCHANGED <<env, config, childVars, probeVars, db_exists, layout, buckets,
                   orig, after1>>

\* The sequence ensure_layout; ensure_key; ensure_buckets (main.rs:301-303)
\* run once more on the same Garage, right after it returned Ok.
SecondPass ==
    /\ pc = "await_exit"
    /\ run < MaxRuns
    /\ run' = run + 1
    /\ pc' = "ensure_layout"
    /\ garage_bucket_map' = EmptyMap
    /\ idx' = 0
    /\ bucket_id' = 0
    /\ staged_version' = 0
    /\ calls' = <<>>
    /\ UNCHANGED <<env, config, exit_code, error, childVars, probeVars, remoteVars,
                   orig, after1>>

Reconcile ==
    \/ GetClusterLayout
    \/ UpdateClusterLayout
    \/ ApplyClusterLayout
    \/ ImportKey
    \/ ListBuckets
    \/ CreateBucket
    \/ UpdateBucket
    \/ AllowBucketKey

NextReconcile == Reconcile \/ Rebootstrap

SpecReconcile == InitReconcile /\ [][NextReconcile]_vars

NextTwice == Reconcile \/ Rebootstrap \/ SecondPass

SpecTwice == InitReconcile /\ [][NextTwice]_vars

\* ------------------------------------------------------------- run_garage
\* Exit statuses of the garage process: an exit code, or -1 for a status
\* without one (ended by a signal).
ExitStatuses == {0, 1, 2, -1}

\* What get_cluster_status can answer: a transport failure, or a status with
\* zero to two nodes.
StatusResponses ==
    {NoResp}
    \cup {[ok |-> TRUE, nodes |-> n] :
            n \in {<<>>}
               \cup {<<[id |-> NodeName, is_up |-> u]>> : u \in BOOLEAN}
               \cup {<<[id |-> NodeName, is_up |-> u], [id |-> "n2", is_up |-> v]>> :
                        u \in BOOLEAN, v \in BOOLEAN}}

\* How long a request takes: answered at once, or anything up to the client's
\* timeout.
RequestDurations == {0, REQUEST_TIMEOUT \div 2, REQUEST_TIMEOUT}

\* The garage process ends, whatever main is doing. Its status is what
\* try_wait or wait collects later.
ChildExit ==
    /\ child = "running"
    /\ child' = "exited"
    /\ exit_during' = pc
    /\ UNCHANGED <<mainVars, exit_status, probeVars, remoteVars, localVars, histVars>>

\* Command::new("/garage")...spawn().map_err(StartError::Spawn)? and the first
\* lines of wait_for_garage. Garage creates its database when it starts.
Spawn ==
    /\ pc = "run_garage"
    /\ \E o \in {"ok", "err"} :
        IF o = "err"
        THEN /\ Abort("Spawn")
             /\ start_result' = "Spawn"
             /\ UNCHANGED <<child, db_exists, elapsed, next_log>>
        ELSE /\ child' = "running"
             /\ db_exists' = TRUE
             /\ elapsed' = 0
             /\ next_log' = GARAGE_START_LOG_INTERVAL
             /\ pc' = "try_wait"
             /\ UNCHANGED <<exit_code, error, start_result>>
    /\ UNCHANGED <<run, env, config, exit_status, exit_during, last_resp, last_notice,
                   node_id, layout, keys, buckets, localVars, histVars>>

\* What a failed try_wait() is turned into by map_err.
TryWaitError_AsExited == "Exited"

TryWaitError == "AvailabilityCheck"

\* child.try_wait().map_err(StartError::AvailabilityCheck)?: the liveness check
\* at the head of the loop.
TryWait ==
    /\ pc = "try_wait"
    /\ \E o \in {"ok", "err"} :
        IF o = "err"
        THEN /\ Abort(TryWaitError)
             /\ start_result' = TryWaitError
             /\ UNCHANGED exit_status
        ELSE IF child = "exited"
        THEN /\ \E st \in ExitStatuses : exit_status' = st
             /\ Abort("Exited")
             /\ start_result' = "Exited"
        ELSE /\ pc' = "get_cluster_status"
             /\ UNCHANGED <<exit_code, error, start_result, exit_status>>
    /\ UNCHANGED <<run, env, config, child, exit_during, elapsed, next_log, last_resp, last_notice,
                   node_id, remoteVars, localVars, histVars>>

NodeCountOk_AtLeastOne(nodes) == Len(nodes) >= 1

\* status.nodes.len() != 1 is the fatal topology error.
NodeCountOk(nodes) == ~(Len(nodes) # 1)

LogDue(e, nl) == e > nl

TimedOut_AtOnce(e) == TRUE

TimedOut_Never(e) == FALSE

TimedOut_Strict(e) == e > GARAGE_START_TIMEOUT

\* start.elapsed() >= GARAGE_START_TIMEOUT
TimedOut(e) == e >= GARAGE_START_TIMEOUT

\* admin_api.get_cluster_status().await and the rest of the loop body: the
\* match on the answer, the timeout test and the sleep. The request takes d
\* (at most the client's timeout).
GetClusterStatus ==
    /\ pc = "get_cluster_status"
    /\ \E d \in RequestDurations, resp \in StatusResponses :
        LET e == elapsed + d IN
        /\ e <= MaxElapsed
        /\ last_resp' = resp
        /\ IF resp.ok /\ ~NodeCountOk(resp.nodes)
           THEN /\ Abort("UnexpectedNumberOfNodes")
                /\ start_result' = "UnexpectedNumberOfNodes"
                /\ elapsed' = e
                /\ UNCHANGED <<next_log, last_notice, node_id>>
           ELSE IF resp.ok /\ resp.nodes[1].is_up
           THEN /\ start_result' = "Ready"
                /\ node_id' = resp.nodes[1].id
                /\ pc' = "garage_ready"
                /\ elapsed' = e
                /\ UNCHANGED <<exit_code, error, next_log, last_notice>>
           ELSE /\ next_log' = IF LogDue(e, next_log)
                                THEN next_log + GARAGE_START_LOG_INTERVAL ELSE next_log
                /\ last_notice' = IF LogDue(e, next_log) THEN e ELSE last_notice
                /\ UNCHANGED node_id
                /\ IF TimedOut(e)
                   THEN /\ Abort("Timeout")
                        /\ start_result' = "Timeout"
                        /\ elapsed' = e
                   ELSE /\ elapsed' = e + GARAGE_START_POLL_INTERVAL
                        /\ pc' = "try_wait"
                        /\ UNCHANGED <<exit_code, error, start_result>>
    /\ UNCHANGED <<run, env, config, childVars, remoteVars, localVars, histVars>>

\* run_garage returns Ok(Garage {..}): the prober's clock is gone.
GarageReady ==
    /\ pc = "garage_ready"
    /\ pc' = "ensure_layout"
    /\ elapsed' = 0
    /\ next_log' = 0
    /\ last_notice' = -1
    /\ UNCHANGED <<run, env, config, exit_code, error, childVars, start_result,
                   last_resp, node_id, remoteVars, localVars, histVars>>

\* ------------------------------------------------------------------ main
\* Config::from_env().context("Could not load config")?
LoadConfig ==
    /\ pc = "load_config"
    /\ IF ParseOk(env)
       THEN /\ config' = ParseBuckets(env)
            /\ pc' = "delete_keys"
            /\ UNCHANGED <<exit_code, error>>
       ELSE Abort("Config") /\ UNCHANGED config
    /\ UNCHANGED <<run, env, childVars, probeVars, remoteVars, localVars, histVars>>

\* delete_keys()?; create_config(&config)?: the key table is emptied and
\* /etc/garage.toml written; either can fail.
DeleteKeysAndCreateConfig ==
    /\ pc = "delete_keys"
    /\ \E o \in {"ok", "err_delete", "err_write"} :
        /\ keys' = IF o = "err_delete" THEN keys ELSE DeleteKeys(db_exists, keys)
        /\ IF o = "ok"
           THEN pc' = "run_garage" /\ UNCHANGED <<exit_code, error>>
           ELSE Abort(IF o = "err_delete" THEN "DeleteKeys" ELSE "CreateConfig")
    /\ UNCHANGED <<run, env, config, childVars, probeVars, db_exists, layout, buckets,
                   localVars, histVars>>

ExitCode_SignalIsZero(status) == IF status = -1 THEN 0 ELSE status

\* Ok(()) for a successful status, else exit(exit_status.code().unwrap_or(1)).
ExitCode(status) ==
    IF status = 0 THEN 0
    ELSE IF status # -1 THEN status ELSE 1

\* garage.process.wait().await? and the exit of main. The wait returns once the
\* garage process has ended; when its status cannot be collected main returns
\* Err.
AwaitExit ==
    /\ pc = "await_exit"
    /\ child = "exited"
    /\ \E o \in {"ok", "err"} :
        IF o = "err"
        THEN Abort("Wait") /\ UNCHANGED exit_status
        ELSE /\ \E st \in ExitStatuses : exit_status' = st
             /\ pc' = "exited"
             /\ exit_code' = ExitCode(exit_status')
             /\ UNCHANGED error
    /\ UNCHANGED <<run, env, config, child, exit_during, probeVars, remoteVars, localVars,
                   histVars>>

\* What GARAGE_BUCKETS holds in the runs followed from main's first line.
MainEnvs ==
    {<<[name |-> "site", policy |-> "public"], [name |-> "data", policy |-> "absent"]>>,
     <<[name |-> "data", policy |-> "PRIVATE"], [name |-> "site", policy |-> "absent"]>>,
     <<[name |-> "site", policy |-> "open"]>>}

\* The server's data before the container starts: none (no database), a
\* database with keys but neither layout nor buckets, or a database left by
\* earlier bootstraps.
MainRemotes ==
    {[db_exists |-> FALSE, keys |-> {}, buckets |-> EmptyMap,
      layout |-> [version |-> 0, roles |-> {}, staged |-> {}]],
     [db_exists |-> TRUE, keys |-> {"GKold"}, buckets |-> EmptyMap,
      layout |-> [version |-> 0, roles |-> {}, staged |-> {}]],
     [db_exists |-> TRUE, keys |-> {"GKold", AccessKeyId},
      buckets |-> 1 :> [aliases |-> {"site"}, website |-> WebOff,
                        perms |-> {<<"GKold", "read">>}],
      layout |-> [version |-> 1, roles |-> {NodeRole(NodeName)}, staged |-> {}]]}

Init ==
    /\ pc = "load_config"
    /\ run = 1
    /\ env \in MainEnvs
    /\ config = <<>>
    /\ exit_code = 0
    /\ error = "none"
    /\ child = "none"
    /\ exit_status = 0
    /\ exit_during = "none"
    /\ elapsed = 0
    /\ next_log = 0
    /\ start_result = "none"
    /\ last_resp = NoResp
    /\ last_notice = -1
    /\ node_id = None
    /\ \E r \in MainRemotes :
        /\ db_exists = r.db_exists
        /\ layout = r.layout
        /\ keys = r.keys
        /\ buckets = r.buckets
    /\ garage_bucket_map = EmptyMap
    /\ idx = 0
    /\ bucket_id = 0
    /\ staged_version = 0
    /\ calls = <<>>
    /\ orig = [layout |-> layout, keys |-> keys, buckets |-> buckets]
    /\ after1 = [set |-> FALSE, run |-> 0, remote |-> orig]

Probe == TryWait \/ GetClusterStatus

Next ==
    \/ LoadConfig
    \/ DeleteKeysAndCreateConfig
    \/ Spawn
    \/ Probe
    \/ GarageReady
    \/ Reconcile
    \/ AwaitExit
    \/ ChildExit

Spec == Init /\ [][Next]_vars

\* wait_for_garage alone, from its first line on a server without data; the
\* loop is one thread whose steps all end (try_wait does not block, the request
\* has a timeout, the sleep is finite).
InitProbe ==
    /\ pc = "try_wait"
    /\ run = 1
    /\ env = <<[name |-> "site", policy |-> "public"], [name |-> "data", policy |-> "absent"]>>
    /\ config = ParseBuckets(env)
    /\ exit_code = 0
    /\ error = "none"
    /\ child = "running"
    /\ exit_status = 0
    /\ exit_during = "none"
    /\ elapsed = 0
    /\ next_log = GARAGE_START_LOG_INTERVAL
    /\ start_result = "none"
    /\ last_resp = NoResp
    /\ last_notice = -1
    /\ node_id = None
    /\ db_exists = TRUE
    /\ layout = [version |-> 0, roles |-> {}, staged |-> {}]
    /\ keys = {}
    /\ buckets = EmptyMap
    /\ garage_bucket_map = EmptyMap
    /\ idx = 0
    /\ bucket_id = 0
    /\ staged_version = 0
    /\ calls = <<>>
    /\ orig = [layout |-> layout, keys |-> keys, buckets |-> buckets]
    /\ after1 = [set |-> FALSE, run |-> 0, remote |-> orig]

NextProbe == Probe \/ ChildExit

SpecProbe == InitProbe /\ [][NextProbe]_vars /\ WF_vars(Probe)

\* ---------------------------------------------------------------- claims
ApiOps(op) == SelectSeq(calls, LAMBDA c : c.op = op)

DesiredNames == {config[k].name : k \in 1..Len(config)}

\* The policy of the last entry of config.buckets that names n.
LastPolicy(n) ==
    config[CHOOSE k \in 1..Len(config) :
        /\ config[k].name = n
        /\ \A j \in 1..Len(config) : config[j].name = n => j <= k].policy

PolicyWebsite(policy) == IF policy = "Public" THEN WebOn ELSE WebOff

FullGrant == {<<AccessKeyId, "owner">>, <<AccessKeyId, "read">>, <<AccessKeyId, "write">>}

Ambiguous(b) == Cardinality(b.aliases) # 1

\* C1: idempotence of reconciliation. When the sequence ensure_layout;
\* ensure_key; ensure_buckets has completed once and a later pass (run again on
\* the same server, or by the next bootstrap) completes too, the remote state
\* is the one the first completed pass left: same layout version, roles and
\* staged changes, same keys, same buckets with the same website access and
\* grants.
C1_Idempotent ==
    (pc = "await_exit" /\ after1.set /\ after1.run < run) => Remote = after1.remote

\* A second pass completed after a first one that initialised the layout and
\* created a bucket.
C1_Witness ==
    /\ pc = "await_exit" /\ after1.set /\ after1.run = 1 /\ run = 2
    /\ orig.layout.version = 0
    /\ DOMAIN after1.remote.buckets # DOMAIN orig.buckets
    /\ Len(ApiOps("update_bucket")) = 2

\* C5: a remote bucket with no global alias or with two of them is never in
\* garage_bucket_map, no update_bucket or allow_bucket_key of any run carries
\* its id, and its website access and grants stay as they were.
C5_AmbiguousUntouched ==
    \A id \in DOMAIN orig.buckets :
        Ambiguous(orig.buckets[id]) =>
            /\ \A a \in DOMAIN garage_bucket_map : garage_bucket_map[a] # id
            /\ \A k \in 1..Len(calls) :
                   calls[k].op \in {"update_bucket", "allow_bucket_key"}
                       => calls[k].id # id
            /\ bucket_id # id
            /\ buckets[id] = orig.buckets[id]

\* A bucket with two aliases, one of them a desired name, was listed, and the
\* run went on to update and grant another bucket.
C5_Witness ==
    /\ \E id \in DOMAIN orig.buckets :
          /\ Cardinality(orig.buckets[id].aliases) = 2
          /\ orig.buckets[id].aliases \cap DesiredNames # {}
    /\ Len(ApiOps("allow_bucket_key")) >= 1
    /\ calls[Len(calls)].outcome = "ok"

\* C6: the update_bucket calls of a run are, in order, one per entry of
\* config.buckets: the k-th carries the website access of the k-th entry's
\* policy (Public: enabled with index.html and no error document; Private:
\* disabled with neither) and the id of the bucket whose sole alias is the
\* entry's name, created or found; a run that completes has issued one for every
\* entry, and every desired bucket then has the website access of its policy.
C6_PolicyMapping ==
    LET U == ApiOps("update_bucket") IN
    /\ Len(U) <= Len(config)
    /\ \A k \in 1..Len(U) :
          /\ U[k].alias = config[k].name
          /\ config[k].policy = "Public" =>
                U[k].arg = [enabled |-> TRUE, index_document |-> "index.html",
                            error_document |-> "none"]
          /\ config[k].policy = "Private" =>
                U[k].arg = [enabled |-> FALSE, index_document |-> "none",
                            error_document |-> "none"]
          /\ buckets[U[k].id].aliases = {config[k].name}
    /\ pc \in {"allow_bucket_key"} => Len(U) = idx
    /\ pc = "await_exit" =>
          /\ Len(U) = Len(config)
          /\ \A id \in DOMAIN buckets : \A n \in DesiredNames :
                buckets[id].aliases = {n} =>
                    buckets[id].website = PolicyWebsite(LastPolicy(n))

\* A completed run that found a Public bucket configured Private and created a
\* Public one.
C6_Witness ==
    /\ pc = "await_exit"
    /\ \E id \in DOMAIN orig.buckets :
          /\ orig.buckets[id].website = WebOn
          /\ buckets[id].website = WebOff
    /\ \E id \in DOMAIN buckets \ DOMAIN orig.buckets : buckets[id].website = WebOn

\* A run without API errors exists from the original state: no desired name is
\* an alias of a bucket that cannot be matched, and a name listed twice is the
\* sole alias of an existing bucket.
ErrorFreeRunExists ==
    \A k \in 1..Len(config) :
        /\ \A id \in DOMAIN orig.buckets :
              config[k].name \in orig.buckets[id].aliases
                  => ~Ambiguous(orig.buckets[id])
        /\ \/ \E id \in DOMAIN orig.buckets :
                 orig.buckets[id].aliases = {config[k].name}
           \/ \A j \in 1..Len(config) : config[j].name = config[k].name => j = k

\* The end state of one error-free run from the original state.
ExpectedEnd ==
    /\ layout = IF orig.layout.version > 0 THEN orig.layout
                ELSE [version |-> 1,
                      roles |-> {[id |-> NodeName, zone |-> "dc1",
                                  capacity |-> I64_MAX, tags |-> {}]},
                      staged |-> {}]
    /\ keys = orig.keys \cup {AccessKeyId}
    /\ \A id \in DOMAIN orig.buckets :
          /\ id \in DOMAIN buckets
          /\ IF \E n \in DesiredNames : orig.buckets[id].aliases = {n}
             THEN buckets[id] =
                    [aliases |-> orig.buckets[id].aliases,
                     website |-> PolicyWebsite(
                        LastPolicy(CHOOSE n \in DesiredNames :
                                       orig.buckets[id].aliases = {n})),
                     perms |-> orig.buckets[id].perms \cup FullGrant]
             ELSE buckets[id] = orig.buckets[id]
    /\ \A id \in DOMAIN buckets \ DOMAIN orig.buckets :
          \E n \in DesiredNames :
              buckets[id] = [aliases |-> {n},
                             website |-> PolicyWebsite(LastPolicy(n)),
                             perms |-> FullGrant]
    /\ \A n \in DesiredNames :
          Cardinality({id \in DOMAIN buckets : n \in buckets[id].aliases}) = 1

\* C9: convergence from any prefix. Whatever runs were aborted by API errors
\* before it, a run that completes leaves the end state of one error-free run
\* from the original state; and when such a run exists, in no run, first or
\* later, does the server have to refuse a call: a run without transport errors
\* succeeds.
C9_Converges ==
    /\ pc = "await_exit" => ExpectedEnd
    /\ ErrorFreeRunExists =>
          /\ pc = "apply_cluster_layout"
                => SrvApplyAccepts(layout, ApplyVersion(staged_version))
          /\ pc = "create_bucket" => ~AliasInUse(buckets, config[idx].name)
          /\ pc = "update_bucket" => bucket_id \in DOMAIN buckets
          /\ pc = "allow_bucket_key"
                => bucket_id \in DOMAIN buckets /\ AccessKeyId \in keys

\* The second run completed after a first run that was aborted having staged
\* the layout and created a bucket, which the second run found by its alias.
C9_Witness ==
    /\ pc = "await_exit" /\ run = 2 /\ after1.run = 2
    /\ orig.layout.version = 0
    /\ \E n \in DOMAIN garage_bucket_map :
          garage_bucket_map[n] \notin DOMAIN orig.buckets
    /\ Len(config) = 2

\* The answer ends the prober by itself: a node count other than one, or the
\* single node up.
Decisive(resp) == resp.ok /\ (Len(resp.nodes) # 1 \/ resp.nodes[1].is_up)

\* C2: when the garage process exits while a get_cluster_status request is
\* pending (after the tick's liveness check, before the tick's answer is acted
\* on), wait_for_garage returns neither Ready nor Timeout.
C2_ExitedWins ==
    exit_during = "get_cluster_status" => start_result \notin {"Ready", "Timeout"}

\* C3: a status answered with zero nodes or with two ends the prober with
\* UnexpectedNumberOfNodes, whatever the is_up values, and main with it; Ready
\* is returned only for a status of exactly one node.
C3_TopologyGuard ==
    /\ (last_resp.ok /\ Len(last_resp.nodes) # 1) =>
          /\ start_result = "UnexpectedNumberOfNodes"
          /\ pc = "exited" /\ error = "UnexpectedNumberOfNodes"
    /\ start_result = "Ready" => Len(last_resp.nodes) = 1

\* Two nodes, both up, were reported and the prober ended with the error.
C3_Witness ==
    /\ last_resp.ok /\ Len(last_resp.nodes) = 2
    /\ last_resp.nodes[1].is_up /\ last_resp.nodes[2].is_up
    /\ start_result = "UnexpectedNumberOfNodes"

\* C4: when every liveness check finds the process running and every status
\* fetch fails or reports the one node not up, the prober eventually returns
\* Timeout, and not before the clock has reached GARAGE_START_TIMEOUT.
C4_TimeoutScenario ==
    /\ [](start_result = "Timeout" => elapsed >= GARAGE_START_TIMEOUT)
    /\ <>(\/ start_result = "Timeout"
          \/ start_result \in {"Exited", "AvailabilityCheck"}
          \/ Decisive(last_resp))

\* Timeout was returned with the process running and the node never up.
C4_Witness ==
    /\ start_result = "Timeout" /\ child = "running"
    /\ last_resp = [ok |-> TRUE, nodes |-> <<[id |-> NodeName, is_up |-> FALSE]>>]

\* C10 as stated: a tick that ends the prober with the clock past the overall
\* timeout ends it with Timeout, whatever the status fetch answered.
C10_TimeoutDominates ==
    (start_result \in {"Ready", "UnexpectedNumberOfNodes", "Timeout"}
        /\ elapsed > GARAGE_START_TIMEOUT) => start_result = "Timeout"

\* C10, amended: the timeout is tested only on a tick whose fetch failed or
\* reported the one node not up. On such a tick the prober returns Timeout when
\* the clock has reached GARAGE_START_TIMEOUT, and polls on only when it has not;
\* a fetch that reports the single node up returns Ready and one that reports
\* another node count returns the topology error, also past the timeout.
C10_TimeoutAfterPoll ==
    /\ pc \in {"try_wait", "get_cluster_status"} =>
          elapsed < GARAGE_START_TIMEOUT + GARAGE_START_POLL_INTERVAL
    /\ start_result = "Timeout" =>
          elapsed >= GARAGE_START_TIMEOUT /\ ~Decisive(last_resp)
    /\ (last_resp.ok /\ Len(last_resp.nodes) = 1 /\ last_resp.nodes[1].is_up)
          => start_result = "Ready"
    /\ (last_resp.ok /\ Len(last_resp.nodes) # 1)
          => start_result = "UnexpectedNumberOfNodes"

\* Timeout was returned past the timeout on a tick whose fetch failed.
C10_Witness ==
    /\ start_result = "Timeout" /\ elapsed > GARAGE_START_TIMEOUT
    /\ last_resp = NoResp

\* C7: with GARAGE_BUCKETS = "site:public,data", a server with layout
\* version 0 and no buckets, and no API error, the completed bootstrap leaves
\* layout version 1 with the reported node as its only role, at capacity
\* i64::MAX; exactly the buckets site and data, site with website access
\* enabled and index.html, data with website access disabled; and the
\* configured key, present, with owner, read and write on both.
C7_EndToEnd ==
    (/\ env = <<[name |-> "site", policy |-> "public"],
                [name |-> "data", policy |-> "absent"]>>
     /\ orig.layout.version = 0 /\ DOMAIN orig.buckets = {}
     /\ after1.set) =>
        /\ layout = [version |-> 1,
                     roles |-> {[id |-> NodeName, zone |-> "dc1",
                                 capacity |-> "i64::MAX", tags |-> {}]},
                     staged |-> {}]
        /\ AccessKeyId \in keys
        /\ Cardinality(DOMAIN buckets) = 2
        /\ \E s, d \in DOMAIN buckets :
              /\ buckets[s].aliases = {"site"}
              /\ buckets[s].website = [enabled |-> TRUE, index_document |-> "index.html",
                                       error_document |-> "none"]
              /\ buckets[d].aliases = {"data"}
              /\ buckets[d].website = [enabled |-> FALSE, index_document |-> "none",
                                       error_document |-> "none"]
              /\ \A p \in {"owner", "read", "write"} :
                    <<AccessKeyId, p>> \in buckets[s].perms \cap buckets[d].perms

\* The whole run on a server without data, ended with garage's exit code 0.
C7_Witness ==
    /\ env = <<[name |-> "site", policy |-> "public"],
               [name |-> "data", policy |-> "absent"]>>
    /\ ~orig.layout.version > 0 /\ DOMAIN orig.buckets = {} /\ orig.keys = {}
    /\ after1.set /\ pc = "exited" /\ error = "none" /\ exit_code = 0

\* C8: a run ended by a fatal startup error or by a failed API call has exited
\* with a code other than 0; a run whose reconciliation completed does not exit
\* while garage runs, and exits with the code of the status it collected, or 1
\* when none was collected or the status has no code.
C8_ExitStatus ==
    /\ start_result \in {"Spawn", "Exited", "Timeout", "UnexpectedNumberOfNodes"}
          => pc = "exited" /\ exit_code # 0
    /\ (\E k \in 1..Len(calls) : calls[k].outcome # "ok")
          => pc = "exited" /\ exit_code # 0
    /\ error # "none" => pc = "exited" /\ exit_code # 0
    /\ (after1.set /\ pc = "exited") =>
          /\ child = "exited"
          /\ exit_code = IF error = "Wait" \/ exit_status = -1 THEN 1 ELSE exit_status

\* A completed bootstrap whose garage was ended by a signal exited with 1.
C8_Witness ==
    /\ after1.set /\ pc = "exited" /\ error = "none"
    /\ exit_status = -1 /\ exit_code = 1

\* What wait_for_garage can end with.
ProbeOutcomes == {"Ready", "Exited", "Timeout", "UnexpectedNumberOfNodes"}

\* C11 as stated: wait_for_garage ends with Ready, Exited, Timeout or the
\* topology error, and with nothing else.
C11_FourOutcomes == start_result \in ProbeOutcomes \cup {"none"}

\* C11, amended: wait_for_garage ends with exactly one of Ready, Exited,
\* Timeout, the topology error, or AvailabilityCheck, the error of a liveness
\* check that itself failed; the loop runs as long as there is no outcome, only
\* Ready lets main go on, Exited is returned only for a process that has ended,
\* and every other outcome ends main with that error.
C11_ClosedOutcomes ==
    /\ start_result \in ProbeOutcomes \cup {"AvailabilityCheck", "none"}
    /\ start_result = "none" <=> pc \in {"try_wait", "get_cluster_status"}
    /\ start_result = "Ready" <=> pc = "garage_ready"
    /\ start_result \in (ProbeOutcomes \ {"Ready"}) \cup {"AvailabilityCheck"}
          => pc = "exited" /\ error = start_result /\ exit_code # 0
    /\ start_result = "Exited" => child = "exited"

\* The liveness check failed on a later tick, with the process running.
C11_Witness ==
    /\ start_result = "AvailabilityCheck" /\ child = "running"
    /\ elapsed > GARAGE_START_LOG_INTERVAL /\ pc = "exited"

\* C12: a status fetch that fails does not end the prober by itself: when it
\* ended before GARAGE_START_TIMEOUT the prober sleeps one poll interval and
\* starts the next tick, with no outcome and no error; only a fetch that ended
\* at or past the timeout ends it, with Timeout. Ready is returned only on an
\* answer of exactly one node whose is_up is true.
C12_TransportFailure ==
    /\ [](start_result = "Ready" =>
            /\ last_resp.ok
            /\ Len(last_resp.nodes) = 1
            /\ last_resp.nodes[1].is_up)
    /\ [][(pc = "get_cluster_status" /\ pc' # pc /\ last_resp' = NoResp) =>
            \/ /\ pc' = "try_wait"
               /\ start_result' = "none" /\ error' = "none"
               /\ elapsed' >= elapsed + GARAGE_START_POLL_INTERVAL
               /\ elapsed' - GARAGE_START_POLL_INTERVAL < GARAGE_START_TIMEOUT
            \/ /\ pc' = "exited"
               /\ start_result' = "Timeout"
               /\ elapsed' >= GARAGE_START_TIMEOUT]_vars

\* The last fetch failed and the next tick's fetch is under way.
C12_Witness ==
    /\ last_resp = NoResp /\ pc = "get_cluster_status"
    /\ elapsed > 0 /\ child = "running" /\ start_result = "none"

\* C13: two consecutive progress notices of one wait_for_garage are never less
\* than GARAGE_START_LOG_INTERVAL apart.
C13_NoticeRateLimit ==
    [][(last_notice # -1 /\ last_notice' # -1 /\ last_notice' # last_notice)
          => last_notice' - last_notice >= GARAGE_START_LOG_INTERVAL]_vars

\* The run's first call, get_cluster_layout, was answered.
LayoutFetched ==
    /\ Len(calls) >= 1
    /\ calls[1].op = "get_cluster_layout"
    /\ calls[1].outcome = "ok"

\* C14: in a run whose get_cluster_layout answered a layout of version > 0,
\* ensure_layout returns Ok having issued neither update_cluster_layout nor
\* apply_cluster_layout: the next call is import_key, and the remote layout
\* (version, roles, staged changes) stays the one that was fetched.
C14_LayoutNoOp ==
    (LayoutFetched /\ calls[1].arg.version > 0) =>
        /\ \A k \in 1..Len(calls) :
              calls[k].op \notin {"update_cluster_layout", "apply_cluster_layout"}
        /\ layout = calls[1].arg
        /\ Len(calls) = 1 => pc = "ensure_key" /\ error = "none"
        /\ Len(calls) >= 2 => calls[2].op = "import_key"

\* A run on an initialised layout went through all of the reconciliation.
C14_Witness ==
    /\ LayoutFetched /\ calls[1].arg.version > 0
    /\ pc = "await_exit" /\ Len(config) = 2

\* C15: in a run whose get_cluster_layout answered version 0, the second call
\* is update_cluster_layout with the one role of the node the prober reported
\* (capacity i64::MAX, no tags, zone dc1), the third is apply_cluster_layout
\* with the version the update returned plus 1, the fourth is import_key, and
\* there is no other update or apply; a failed fetch or a failed update ends the
\* run with that error, no call following it.
C15_LayoutProtocol ==
    /\ \A k \in 1..(Len(calls) - 1) : calls[k].outcome = "ok"
    /\ (calls # <<>> /\ calls[Len(calls)].outcome # "ok") =>
          pc = "exited" /\ error = "api"
    /\ (LayoutFetched /\ calls[1].arg.version = 0) =>
          /\ Len(calls) = 1 => pc = "update_cluster_layout"
          /\ Len(calls) >= 2 =>
                /\ calls[2].op = "update_cluster_layout"
                /\ calls[2].arg = [id |-> node_id, zone |-> "dc1",
                                   capacity |-> "i64::MAX", tags |-> {}]
          /\ (Len(calls) = 2 /\ calls[2].outcome = "ok") => pc = "apply_cluster_layout"
          /\ Len(calls) >= 3 =>
                /\ calls[3].op = "apply_cluster_layout"
                /\ calls[3].id = staged_version + 1
                /\ staged_version = calls[1].arg.version
          /\ Len(calls) >= 4 => calls[4].op = "import_key"
          /\ Len(ApiOps("update_cluster_layout")) <= 1
          /\ Len(ApiOps("apply_cluster_layout")) <= 1

\* The layout was staged and applied as version 1, and the run went on.
C15_Witness ==
    /\ LayoutFetched /\ calls[1].arg.version = 0
    /\ Len(calls) >= 4 /\ calls[3].outcome = "ok" /\ layout.version = 1

BucketOps == {"list_buckets", "create_bucket", "update_bucket", "allow_bucket_key"}

LayoutOps == {"get_cluster_layout", "update_cluster_layout", "apply_cluster_layout"}

\* C16: a failed list_buckets, create_bucket, update_bucket or
\* allow_bucket_key is the last call of its run, which ends with that error and
\* a non-zero exit code, the later entries of config.buckets unprocessed; no
\* call other than the nine of the reconciliation (none that deletes) is ever
\* issued, and no bucket loses its existence, an alias or a grant, nor changes
\* at all once the run has ended.
C16_BucketFailure ==
    /\ [](\A k \in 1..Len(calls) :
            (calls[k].op \in BucketOps /\ calls[k].outcome # "ok") =>
                /\ k = Len(calls)
                /\ pc = "exited" /\ error = "api" /\ exit_code # 0)
    /\ [](\A k \in 1..Len(calls) :
            calls[k].op \in LayoutOps \cup {"import_key"} \cup BucketOps)
    /\ [][/\ \A id \in DOMAIN buckets :
                /\ id \in DOMAIN buckets'
                /\ buckets'[id].aliases = buckets[id].aliases
                /\ buckets[id].perms \subseteq buckets'[id].perms
          /\ pc = "exited" => buckets' = buckets]_vars

\* The grant on the second bucket failed after the first bucket had been
\* created, configured and granted: the first bucket stays as processed.
C16_Witness ==
    /\ Len(config) = 2 /\ idx = 2 /\ config[1].name # config[2].name
    /\ pc = "exited" /\ error = "api"
    /\ calls[Len(calls)].op = "allow_bucket_key" /\ calls[Len(calls)].outcome = "err"
    /\ Len(ApiOps("create_bucket")) = 2
    /\ \E id \in DOMAIN buckets :
          /\ buckets[id].aliases = {config[1].name}
          /\ FullGrant \subseteq buckets[id].perms

\* The step of the pipeline a call belongs to.
Stage(op) == IF op \in LayoutOps THEN 1 ELSE IF op = "import_key" THEN 2 ELSE 3

ReconcilePcs ==
    {"ensure_layout", "update_cluster_layout", "apply_cluster_layout", "ensure_key",
     "list_buckets", "create_bucket", "update_bucket", "allow_bucket_key"}

\* C17: main goes through spawn, probe, ensure_layout, ensure_key,
\* ensure_buckets and the wait for garage's exit in this order, each step
\* started only when the one before returned Ok: no garage process before the
\* key wipe and the config are done, no API call of the reconciliation unless
\* the prober returned Ready, every call but the last of a run answered Ok, the
\* calls in the order layout, key, buckets, import_key only after a layout found
\* initialised or applied, bucket calls only after import_key, and the wait
\* only after the reconciliation has completed.
C17_Sequential ==
    /\ child = "none" =>
          /\ pc \in {"load_config", "delete_keys", "run_garage", "exited"}
          /\ start_result \in {"none", "Spawn"}
    /\ pc \in {"try_wait", "get_cluster_status"} =>
          start_result = "none" /\ calls = <<>> /\ child # "none"
    /\ (calls # <<>> \/ pc \in ReconcilePcs \cup {"await_exit"}) =>
          start_result = "Ready"
    /\ \A k \in 1..(Len(calls) - 1) :
          /\ calls[k].outcome = "ok"
          /\ Stage(calls[k].op) <= Stage(calls[k + 1].op)
    /\ \A k \in 1..Len(calls) :
          /\ calls[k].op = "import_key" =>
                /\ k > 1
                /\ \/ calls[k - 1].op = "apply_cluster_layout"
                   \/ /\ calls[k - 1].op = "get_cluster_layout"
                      /\ calls[k - 1].arg.version > 0
          /\ calls[k].op = "list_buckets" => k > 1 /\ calls[k - 1].op = "import_key"
    /\ Len(ApiOps("import_key")) <= 1 /\ Len(ApiOps("list_buckets")) <= 1
    /\ pc = "await_exit" =>
          after1.set /\ calls # <<>> /\ calls[Len(calls)].outcome = "ok"
    /\ (pc = "exited" /\ error \in {"none", "Wait"}) => after1.set

\* The whole pipeline ran: layout initialised, key imported, two buckets
\* created, and garage's exit awaited.
C17_Witness ==
    /\ pc = "exited" /\ error = "none" /\ start_result = "Ready"
    /\ Len(calls) = 11 /\ child = "exited"

\* C18: create_bucket is never called with an alias that is the sole alias of a
\* bucket on the server at the time of the call. A create_bucket that failed
\* left the buckets as they were at the call and ended the run, so none of them
\* has the call's alias as its sole alias; one that took effect made the only
\* bucket with that alias.
C18_NoDuplicateCreate ==
    \A k \in 1..Len(calls) :
        calls[k].op = "create_bucket" =>
            IF calls[k].outcome = "err"
            THEN ~\E id \in DOMAIN buckets : buckets[id].aliases = {calls[k].alias}
            ELSE \A id \in DOMAIN buckets :
                    calls[k].alias \in buckets[id].aliases => id = calls[k].id

\* C19: every update_bucket and allow_bucket_key of a run carries a desired
\* name and the id of the bucket whose sole alias is that name, which is either
\* the id a create_bucket of this run returned for the name or the id
\* garage_bucket_map holds for it; a bucket of the original state whose sole
\* alias is not a desired name is still there, with its aliases, website access
\* and grants as they were.
C19_UnconfiguredUntouched ==
    /\ \A k \in 1..Len(calls) :
          calls[k].op \in {"update_bucket", "allow_bucket_key"} =>
              /\ calls[k].alias \in DesiredNames
              /\ calls[k].id \in DOMAIN buckets
              /\ buckets[calls[k].id].aliases = {calls[k].alias}
              /\ \/ \E j \in 1..(k - 1) :
                        /\ calls[j].op = "create_bucket" /\ calls[j].outcome = "ok"
                        /\ calls[j].id = calls[k].id /\ calls[j].alias = calls[k].alias
                 \/ /\ calls[k].alias \in DOMAIN garage_bucket_map
                    /\ garage_bucket_map[calls[k].alias] = calls[k].id
    /\ \A id \in DOMAIN orig.buckets :
          (\E a \in Aliases \ DesiredNames : orig.buckets[id].aliases = {a}) =>
              id \in DOMAIN buckets /\ buckets[id] = orig.buckets[id]

\* The second run completed with two buckets in its map: the one of the desired
\* name, which it updated, and one whose sole alias is not desired.
C19_Witness ==
    /\ run = 2 /\ pc = "await_exit"
    /\ DOMAIN garage_bucket_map = {"site", "data"}
    /\ DesiredNames = {"site"}
    /\ Len(ApiOps("update_bucket")) >= 1

\* C20: the access keys are deleted before the garage process exists and at no
\* other time: when main reaches the spawn the key table is empty, no key other
\* than the configured one is on the server once garage has been started, only
\* the step of delete_keys removes a key, and after a completed reconciliation
\* the keys are exactly the configured key.
C20_KeyWipe ==
    /\ [](pc = "run_garage" => keys = {} /\ child = "none")
    /\ [](child # "none" => keys \subseteq {AccessKeyId})
    /\ [](after1.set => keys = {AccessKeyId})
    /\ [][~(keys \subseteq keys') => (pc = "delete_keys" /\ child = "none")]_vars

\* A key of an earlier bootstrap was on the server; the run completed and ended
\* with the configured key alone.
C20_Witness ==
    /\ orig.keys = {"GKold"} /\ after1.set
    /\ keys = {AccessKeyId} /\ pc = "exited" /\ error = "none"

====
